---- MODULE Spec2Model ----
(***************************************************************************)
(* Stream process supervisor of streamflow: services/streamingService.js   *)
(* (src/unnamed/part_002) and services/streamHealthMonitor.js.             *)
(*                                                                         *)
(* Time is wall-clock milliseconds.  A resume position is a number of      *)
(* seconds; the JavaScript values null, undefined and 0 all take the same  *)
(* branches in every test the code makes on a resume position              *)
(* (!resumePosition, resumePosition && resumePosition > 0,                 *)
(* resumePosition || 0), so "no resume position" is the number 0.          *)
(* A Map entry that is absent is the number Absent.                        *)
(*                                                                         *)
(* Every handler runs to completion as one step (the event loop is         *)
(* single-threaded); a timer, once scheduled, fires at some later step.    *)
(***************************************************************************)
EXTENDS Integers, Sequences, FiniteSets, Bags, TLC

\* ------------------------------------------------------------- bounds
MaxProcs == 2
MaxTimers == 2
MaxTicks == 1
MaxAppends == 102

\* ------------------------------------------------- program constants
MAX_RETRY_ATTEMPTS == 3
MAX_LOG_LINES == 100
HEALTH_CHECK_TIMEOUT == 30000
CRASH_RESTART_DELAY == 3000
BACKOFF_BASE_DELAY == 3000
BACKOFF_MAX_DELAY == 30000
STALLED_RESTART_DELAY == 2000
RECOVERY_DELAY == 5000

Streams == {"s1"}
\* Map.get of a key that is not there
Absent == -1
\* the clock is observed in steps of 31.5 s, just over the stall timeout
TickMs == HEALTH_CHECK_TIMEOUT + 1500
\* What a caller outside the supervisor passes as resume position: none.
\* Resumed starts are made by the timer callbacks.
ResumeInputs == {0}
ExitKinds == {"clean", "error", "segv", "signal"}
RetryKinds == {"crash", "error"}

Max(a, b) == IF a >= b THEN a ELSE b
Min(a, b) == IF a <= b THEN a ELSE b

VARIABLES
  now,                      \* wall clock, ms
  dbStatus,                 \* Stream model: "absent" | "offline" | "live"
  mediaOk,                  \* the stream's video record and file exist
  activeStreams,            \* the keys of the registry Map
  procs,                    \* per stream, the spawned processes whose 'exit'
                            \* listener has not run yet
  stoppedProcs,             \* history: per stream, how many of them stopStream has
                            \* signalled (SpecDb)
  streamStartTimes,
  streamBasePositions,
  streamVideoPositions,
  streamRetryCount,
  manuallyStoppingStreams,
  scheduledTerminations,    \* schedulerService: streams with a stop scheduled
  timers,                   \* bag of pending setTimeout callbacks
  healthChecks,             \* StreamHealthMonitor.healthChecks
  lastLogAt,                \* timestamp of the newest entry of streamLogs
  streamLogs,               \* the log buffers themselves (SpecLog)
  lastCall,                 \* history: the external start/stop made by the last step, and its result
  lastSpawn,                \* history: per stream, what spawned a process in the last step
  lastExit,                 \* history: the exit the last step handled
  lastFired,                \* history: the timer callback the last step ran
  lastScheduled,            \* history: per stream, the timer the last step scheduled
  lastResume,               \* history: the resume position the newest process of the
                            \* stream's session got; Absent: no session
  retriesScheduled,         \* history: retry timers scheduled at the exit of the
                            \* stream's only process since the last external
                            \* start/stop, clean exit or stall restart
  exhausted,                \* history: streams whose retries ran out since their last
                            \* external start
  appended,                 \* history: addStreamLog calls per stream (SpecLog)
  calcResult,               \* history: last calculateResumePosition call (SpecCalc)
  deafProcs,                \* per stream, the running processes that have no 'exit'
                            \* listener
  lostExits,                \* history: per stream, the terminations no listener saw
  exitedAt                  \* history: per stream, when the last 'exit' was handled (SpecRecover)

vars == <<now, dbStatus, mediaOk, activeStreams, procs, stoppedProcs, streamStartTimes,
          streamBasePositions, streamVideoPositions, streamRetryCount,
          manuallyStoppingStreams, scheduledTerminations, timers,
          healthChecks, lastLogAt, streamLogs,
          lastCall, lastSpawn, lastExit, lastFired, lastScheduled, lastResume, retriesScheduled,
          exhausted, appended, calcResult, deafProcs, lostExits, exitedAt>>

\* History values for "nothing happened in this step".
NoCall == [op |-> "none", sid |-> "s1", wasActive |-> FALSE, ok |-> FALSE,
           kept |-> TRUE, signalled |-> FALSE, repeat |-> FALSE]
NoSpawn == [by |-> "none", stale |-> FALSE]
NoExit == [kind |-> "none", sid |-> "s1", manual |-> FALSE, wasActive |-> FALSE,
           path |-> "none", stopped |-> FALSE, failed |-> FALSE, raised |-> FALSE,
           wroteActive |-> FALSE]
NoFired == [kind |-> "none", sid |-> "s1", resume |-> 0, found |-> FALSE,
            failed |-> FALSE, wrote |-> FALSE]
NoSchedule == [kind |-> "none", resume |-> 0, delay |-> 0, attempt |-> 0,
               expected |-> 0]
NoCalc == [called |-> FALSE, base |-> Absent, start |-> Absent, at |-> 0,
           pos |-> 0]

\* The supervisor's state as one record, so that a handler that calls
\* another handler is the composition of two state transformers.  ok is the
\* handler's result, wrote the streams it called Stream.updateStatus for,
\* signalled the streams whose registered process it sent SIGTERM.
Cur ==
  [now |-> now, db |-> dbStatus, media |-> mediaOk, active |-> activeStreams,
   procs |-> procs, deaf |-> deafProcs,
   lost |-> lostExits, startTimes |-> streamStartTimes,
   basePos |-> streamBasePositions, videoPos |-> streamVideoPositions,
   retry |-> streamRetryCount, manual |-> manuallyStoppingStreams,
   scheduled |-> scheduledTerminations,
   timers |-> timers, health |-> healthChecks, lastLog |-> lastLogAt,
   lastCall |-> NoCall, lastSpawn |-> [s \in Streams |-> NoSpawn],
   lastExit |-> NoExit, lastFired |-> NoFired,
   lastScheduled |-> [s \in Streams |-> NoSchedule], lastResume |-> lastResume,
   retries |-> retriesScheduled, exhausted |-> exhausted, ok |-> TRUE,
   wrote |-> {}, signalled |-> {},
   \* inputs of one handler run: Stream.updateStatus rejects; the spawned
   \* process ends before startStream has attached its listeners
   dbDown |-> FALSE, early |-> FALSE,
   \* an exception is on its way out; updateStatus was called for a
   \* registered stream
   thrown |-> FALSE, wroteActive |-> {}]

BecomeProgram(st) ==
  /\ now' = st.now
  /\ dbStatus' = st.db
  /\ mediaOk' = st.media
  /\ activeStreams' = st.active
  /\ procs' = st.procs
  /\ deafProcs' = st.deaf
  /\ lostExits' = st.lost
  /\ streamStartTimes' = st.startTimes
  /\ streamBasePositions' = st.basePos
  /\ streamVideoPositions' = st.videoPos
  /\ streamRetryCount' = st.retry
  /\ manuallyStoppingStreams' = st.manual
  /\ scheduledTerminations' = st.scheduled
  /\ timers' = st.timers
  /\ healthChecks' = st.health
  /\ lastLogAt' = st.lastLog
  /\ lastCall' = st.lastCall
  /\ lastSpawn' = st.lastSpawn
  /\ lastExit' = st.lastExit
  /\ lastFired' = st.lastFired
  /\ lastScheduled' = st.lastScheduled
  /\ lastResume' = st.lastResume
  /\ retriesScheduled' = st.retries
  /\ exhausted' = st.exhausted

\* What only the steps of SpecRecover and SpecDb change.
aside == <<exitedAt, stoppedProcs>>

Become(st) == BecomeProgram(st) /\ UNCHANGED <<streamLogs, appended, calcResult, aside>>

\* ------------------------------------------------------------ helpers

\* addStreamLog as the supervisor's other handlers see it: the newest
\* entry's timestamp (getStreamStatus().lastLog) is the call's time.
Log(st, s) == [st EXCEPT !.lastLog[s] = st.now]

\* Stream.updateStatus: an UPDATE of a row that may not exist.
\* With dbDown the call rejects and the row is left as it was.
updateStatus(st, s, status) ==
  [st EXCEPT !.db[s] = IF @ = "absent" \/ st.dbDown THEN @ ELSE status,
             !.wrote = @ \cup {s},
             !.wroteActive = @ \cup ({s} \cap st.active),
             !.thrown = @ \/ st.dbDown]

\* try { ... } catch (error) { console.error(...) }
caught(st) == [st EXCEPT !.thrown = FALSE]

\* stream.duration of each stream's record: a duration limit is configured.
Duration == [s \in Streams |-> 3600]

\* schedulerService.scheduleStreamTermination and handleStreamStopped: a
\* stop is scheduled for the stream, and the scheduled stop is cancelled.
scheduleStreamTermination(st, s) == [st EXCEPT !.scheduled = @ \cup {s}]
handleStreamStopped(st, s) == [st EXCEPT !.scheduled = @ \ {s}]

\* Stream.updateStatus(id, 'offline') followed by handleStreamStopped(id).
\* The second call is skipped when the first one rejects.
offlineAndNotify(st, s) ==
  LET st1 == updateStatus(st, s, "offline")
  IN IF st1.thrown THEN st1 ELSE handleStreamStopped(st1, s)

\* Bags: identical processes, and identical timers, are counted.
BagAdd(B, e) == B (+) SetToBag({e})
BagDel(B, e) == B (-) SetToBag({e})
RECURSIVE BagCount(_, _, _)
BagCount(B, todo, y) ==
  IF todo = {} THEN 0
  ELSE LET x == CHOOSE z \in todo : TRUE
       IN (IF y[x] THEN B[x] ELSE 0) + BagCount(B, todo \ {x}, y)
\* The bag of F[x] for x in B.
BagMap(B, F) ==
  LET image == {F[x] : x \in DOMAIN B}
  IN [e \in image |->
        BagCount(B, DOMAIN B, [x \in DOMAIN B |-> F[x] = e])]

RECURSIVE Sum(_, _)
Sum(f, todo) ==
  IF todo = {} THEN 0
  ELSE LET x == CHOOSE z \in todo : TRUE IN f[x] + Sum(f, todo \ {x})

CanSpawn(st) == Sum(st.procs, Streams) + Sum(st.deaf, Streams) < MaxProcs
FreeTimers(st) == MaxTimers - BagCardinality(st.timers)

retryCountOf(st, s) == IF st.retry[s] = Absent THEN 0 ELSE st.retry[s]

\* getStreamElapsedTime: whole seconds since the recorded start, 0 if none.
getStreamElapsedTime(st, s) ==
  IF st.startTimes[s] = Absent THEN 0 ELSE (st.now - st.startTimes[s]) \div 1000

\* getStreamVideoPosition: streamVideoPositions.get(id) || 0
getStreamVideoPosition(st, s) ==
  IF st.videoPos[s] = Absent THEN 0 ELSE st.videoPos[s]

\* setTimeout(callback, delay).  A pending timer keeps what its closure
\* holds (the stream id and the resume position); stale is history: the
\* timer was pending when an external stopStream succeeded.  The delay
\* goes to lastScheduled with two more history values: attempt, the retry
\* number, and expected, the resume position the exited instance was
\* started with plus the whole seconds it ran (Absent when not known).
Schedule(st, s, kind, resume, delay, attempt, expected) ==
  [st EXCEPT
     !.timers = BagAdd(@, [sid |-> s, kind |-> kind, resume |-> resume,
                           stale |-> FALSE]),
     !.lastScheduled[s] = [kind |-> kind, resume |-> resume, delay |-> delay,
                           attempt |-> attempt, expected |-> expected]]

\* --------------------------------------------- calculateResumePosition

ResumePositionMissingBase(base, startTime, t) ==
  IF startTime = Absent THEN 0 ELSE Max(0, (t - startTime) \div 1000)

\* The value calculateResumePosition returns from the stored base
\* position, the stored start time and the clock.
ResumePosition(base, startTime, t) ==
  LET basePosition == IF base = Absent THEN 0 ELSE base
  IN IF startTime = Absent
     THEN basePosition
     ELSE basePosition + Max(0, (t - startTime) \div 1000)

\* calculateResumePosition's effect: the current position is overwritten
\* when a start time is recorded, and a line is logged either way.
calculateResumePositionElapsedOnly(st, s) ==
  IF st.startTimes[s] = Absent
  THEN Log(st, s)
  ELSE Log([st EXCEPT !.videoPos[s] = getStreamElapsedTime(st, s)], s)

calculateResumePosition(st, s) ==
  LET pos == ResumePosition(st.basePos[s], st.startTimes[s], st.now)
  IN IF st.startTimes[s] = Absent
     THEN Log(st, s)
     ELSE Log([st EXCEPT !.videoPos[s] = pos], s)

\* ------------------------------------------------------- startStream

\* Whether startStream gets as far as spawn().
WillSpawn(st, s) == st.db[s] # "absent" /\ st.media[s]

startStreamFailureSetsOffline(st, s, resumePosition, by, stale) ==
  LET st1 == IF resumePosition = 0 THEN [st EXCEPT !.retry[s] = Absent] ELSE st
  IN IF st1.db[s] = "absent"
     THEN [st1 EXCEPT !.ok = FALSE]
     ELSE IF ~st1.media[s]
     THEN [updateStatus(Log(st1, s), s, "offline") EXCEPT !.ok = FALSE]
     ELSE
       LET tracked == st1.videoPos[s] # Absent
       IN [Log(st1, s) EXCEPT
             !.procs[s] = @ + 1,
             !.lastResume[s] = resumePosition,
             !.active = @ \cup {s},
             !.startTimes[s] = st1.now,
             !.videoPos[s] = IF resumePosition > 0 THEN resumePosition
                             ELSE IF tracked THEN @ ELSE 0,
             !.basePos[s] = IF resumePosition > 0 THEN resumePosition
                            ELSE IF tracked THEN @ ELSE 0,
             !.db[s] = "live",
             !.wrote = @ \cup {s},
             !.lastSpawn[s] = [by |-> by, stale |-> stale],
             !.scheduled = IF Duration[s] > 0 THEN @ \cup {s} ELSE @,
             !.ok = TRUE]

startStream(st, s, resumePosition, by, stale) ==
  LET st1 == IF resumePosition = 0 THEN [st EXCEPT !.retry[s] = Absent] ELSE st
  IN IF st1.db[s] = "absent"
     THEN [st1 EXCEPT !.ok = FALSE]
     ELSE IF ~st1.media[s]
     THEN [Log(st1, s) EXCEPT !.ok = FALSE]
     ELSE
       LET tracked == st1.videoPos[s] # Absent
           \* spawn, registry, start time, positions
           st2 == [Log(st1, s) EXCEPT
             !.lastResume[s] = resumePosition,
             !.active = @ \cup {s},
             !.startTimes[s] = st1.now,
             !.videoPos[s] = IF resumePosition > 0 THEN resumePosition
                             ELSE IF tracked THEN @ ELSE 0,
             !.basePos[s] = IF resumePosition > 0 THEN resumePosition
                            ELSE IF tracked THEN @ ELSE 0,
             !.lastSpawn[s] = [by |-> by, stale |-> stale]]
           st3 == updateStatus(st2, s, "live")
       IN IF st3.thrown
          \* the catch of startStream: the listeners were not attached
          THEN [caught(Log(st3, s)) EXCEPT !.deaf[s] = @ + 1, !.ok = FALSE]
          ELSE IF st.early
          \* the 'exit' event was emitted before the listener was attached
          THEN [st3 EXCEPT
                  !.lost[s] = Min(@ + 1, MaxProcs),
                  !.scheduled = IF Duration[s] > 0 THEN @ \cup {s} ELSE @,
                  !.ok = TRUE]
          ELSE [st3 EXCEPT
                  !.procs[s] = @ + 1,
                  !.scheduled = IF Duration[s] > 0 THEN @ \cup {s} ELSE @,
                  !.ok = TRUE]

\* ------------------------------------------- retry/backoff controller

\* Math.min(3000 * Math.pow(2, retryCount - 1), 30000), retryCount being
\* the count read before the increment (2^-1 is one half).
BackoffDelay(retryCount) ==
  Min((BACKOFF_BASE_DELAY * 2^retryCount) \div 2, BACKOFF_MAX_DELAY)

handleStreamCrash(st, s, expected) ==
  LET retryCount == retryCountOf(st, s)
  IN IF retryCount < MAX_RETRY_ATTEMPTS
     THEN LET st1 == Log([st EXCEPT !.retry[s] = retryCount + 1], s)
              pos == ResumePosition(st1.basePos[s], st1.startTimes[s], st1.now)
          IN Schedule(calculateResumePosition(st1, s), s, "crash", pos,
                      CRASH_RESTART_DELAY, retryCount + 1, expected)
     ELSE caught(updateStatus([Log(st, s) EXCEPT !.exhausted = @ \cup {s}], s, "offline"))

handleStreamErrorOffByOne(st, s, expected) ==
  LET retryCount == retryCountOf(st, s)
  IN IF retryCount <= MAX_RETRY_ATTEMPTS
     THEN LET st1 == Log([st EXCEPT !.retry[s] = retryCount + 1], s)
              pos == ResumePosition(st1.basePos[s], st1.startTimes[s], st1.now)
          IN Schedule(calculateResumePosition(st1, s), s, "error", pos,
                      BackoffDelay(retryCount), retryCount + 1, expected)
     ELSE caught(updateStatus([Log(st, s) EXCEPT !.exhausted = @ \cup {s}], s, "offline"))

handleStreamError(st, s, expected) ==
  LET retryCount == retryCountOf(st, s)
  IN IF retryCount < MAX_RETRY_ATTEMPTS
     THEN LET st1 == Log([st EXCEPT !.retry[s] = retryCount + 1], s)
              pos == ResumePosition(st1.basePos[s], st1.startTimes[s], st1.now)
          IN Schedule(calculateResumePosition(st1, s), s, "error", pos,
                      BackoffDelay(retryCount), retryCount + 1, expected)
     ELSE caught(updateStatus([Log(st, s) EXCEPT !.exhausted = @ \cup {s}], s, "offline"))

\* Whether handling this exit schedules a retry timer.
ExitSchedules(st, s, kind) ==
  /\ s \notin st.manual
  /\ kind \in {"segv", "error"}
  /\ retryCountOf(st, s) < MAX_RETRY_ATTEMPTS

onExitCrashBeforeManual(st, s, kind) ==
  LET wasActive == s \in st.active
      \* lastResume and the start time are those of the registered process
      expected == IF st.lastResume[s] # Absent /\ wasActive /\ st.procs[s] = 1
                  THEN st.lastResume[s] + getStreamElapsedTime(st, s)
                  ELSE Absent
      st1 == [Log(st, s) EXCEPT
                !.procs[s] = @ - 1, !.active = @ \ {s},
                !.lastExit = [kind |-> kind, sid |-> s,
                              manual |-> s \in st.manual,
                              wasActive |-> wasActive, path |-> "none",
                              stopped |-> FALSE, failed |-> FALSE,
                              raised |-> FALSE, wroteActive |-> FALSE]]
      took(path) == [st1 EXCEPT !.lastExit.path = path]
  IN IF s \in st1.manual /\ kind # "segv"
     THEN LET st2 == [took("manual") EXCEPT !.manual = @ \ {s}]
          IN IF wasActive THEN caught(offlineAndNotify(st2, s)) ELSE st2
     ELSE IF kind = "segv" THEN handleStreamCrash(took("crash"), s, expected)
     ELSE IF kind = "error" THEN handleStreamError(took("error"), s, expected)
     ELSE IF wasActive THEN caught(offlineAndNotify(took("normal"), s))
     ELSE took("normal")

onExitUncaught(st, s, kind) ==
  LET wasActive == s \in st.active
      \* lastResume and the start time are those of the registered process
      expected == IF st.lastResume[s] # Absent /\ wasActive /\ st.procs[s] = 1
                  THEN st.lastResume[s] + getStreamElapsedTime(st, s)
                  ELSE Absent
      st1 == [Log(st, s) EXCEPT
                !.procs[s] = @ - 1, !.active = @ \ {s},
                !.lastExit = [kind |-> kind, sid |-> s,
                              manual |-> s \in st.manual,
                              wasActive |-> wasActive, path |-> "none",
                              stopped |-> FALSE, failed |-> FALSE,
                              raised |-> FALSE, wroteActive |-> FALSE]]
      took(path) == [st1 EXCEPT !.lastExit.path = path]
  IN IF s \in st1.manual
     THEN LET st2 == [took("manual") EXCEPT !.manual = @ \ {s}]
          IN IF wasActive THEN offlineAndNotify(st2, s) ELSE st2
     ELSE IF kind = "segv" THEN handleStreamCrash(took("crash"), s, expected)
     ELSE IF kind = "error" THEN handleStreamError(took("error"), s, expected)
     ELSE IF wasActive THEN caught(offlineAndNotify(took("normal"), s))
     ELSE took("normal")

\* ffmpegProcess.on('exit'): the closure holds the stream id, not the
\* process.  kind: "segv" (signal SIGSEGV), "error" (code not 0 and not
\* null), "clean" (code 0 or null, no signal), "signal" (any other signal).
\* lastExit.path is the branch taken: "manual", "crash" (handleStreamCrash),
\* "error" (handleStreamError) or "normal" (the final else).
onExit(st, s, kind) ==
  LET wasActive == s \in st.active
      \* lastResume and the start time are those of the registered process
      expected == IF st.lastResume[s] # Absent /\ wasActive /\ st.procs[s] = 1
                  THEN st.lastResume[s] + getStreamElapsedTime(st, s)
                  ELSE Absent
      st1 == [Log(st, s) EXCEPT
                !.procs[s] = @ - 1, !.active = @ \ {s},
                !.lastExit = [kind |-> kind, sid |-> s,
                              manual |-> s \in st.manual,
                              wasActive |-> wasActive, path |-> "none",
                              stopped |-> FALSE, failed |-> FALSE,
                              raised |-> FALSE, wroteActive |-> FALSE]]
      took(path) == [st1 EXCEPT !.lastExit.path = path]
  IN IF s \in st1.manual
     THEN LET st2 == [took("manual") EXCEPT !.manual = @ \ {s}]
          IN IF wasActive THEN caught(offlineAndNotify(st2, s)) ELSE st2
     ELSE IF kind = "segv" THEN handleStreamCrash(took("crash"), s, expected)
     ELSE IF kind = "error" THEN handleStreamError(took("error"), s, expected)
     ELSE IF wasActive THEN caught(offlineAndNotify(took("normal"), s))
     ELSE took("normal")

\* ffmpegProcess.on('error'): the process could not be spawned (gone: there
\* is no process and no exit will follow), or could not be signalled.
onError(st, s, gone) ==
  LET st1 == [Log(st, s) EXCEPT !.procs[s] = IF gone THEN @ - 1 ELSE @,
                                !.active = @ \ {s}]
  IN caught(updateStatus(st1, s, "offline"))

\* --------------------------------------------------------- stopStream

\* StreamHealthMonitor.cleanupStream
cleanupStream(st, s) == [st EXCEPT !.health = {h \in @ : h.sid # s}]

cleanupStreamData(st, s) ==
  cleanupStream([st EXCEPT !.startTimes[s] = Absent, !.videoPos[s] = Absent,
                           !.basePos[s] = Absent, !.retry[s] = Absent,
                           !.lastLog[s] = Absent], s)

\* stopStream after the kill: the tracking data is dropped, the record (if
\* there is one) is set offline, and the scheduler is told.
stopTail(st, s) ==
  LET st1 == cleanupStreamData(st, s)
  IN handleStreamStopped(IF st1.db[s] # "absent"
                         THEN updateStatus(st1, s, "offline") ELSE st1, s)

stopStreamNotActiveCleans(st, s, killThrows) ==
  IF s \notin st.active
  THEN IF st.db[s] = "live"
       THEN [offlineAndNotify(st, s) EXCEPT !.ok = TRUE]
       ELSE [cleanupStreamData(st, s) EXCEPT !.ok = FALSE]
  ELSE
    LET st1 == [Log(st, s) EXCEPT
                  !.manual = IF killThrows THEN @ \ {s} ELSE @ \cup {s},
                  !.signalled = IF killThrows THEN @ ELSE @ \cup {s},
                  !.active = @ \ {s}]
    IN [stopTail(st1, s) EXCEPT !.ok = TRUE]

stopStreamDriftSetsFlag(st, s, killThrows) ==
  IF s \notin st.active
  THEN IF st.db[s] = "live"
       THEN [updateStatus(st, s, "offline") EXCEPT !.manual = @ \cup {s},
                                                   !.ok = TRUE]
       ELSE [st EXCEPT !.ok = FALSE]
  ELSE
    LET st1 == [Log(st, s) EXCEPT
                  !.manual = IF killThrows THEN @ \ {s} ELSE @ \cup {s},
                  !.signalled = IF killThrows THEN @ ELSE @ \cup {s},
                  !.active = @ \ {s}]
    IN [stopTail(st1, s) EXCEPT !.ok = TRUE]

stopStreamKillFailureSkipsCleanup(st, s, killThrows) ==
  IF s \notin st.active
  THEN IF st.db[s] = "live"
       THEN [offlineAndNotify(st, s) EXCEPT !.ok = TRUE]
       ELSE [st EXCEPT !.ok = FALSE]
  ELSE
    LET st1 == [Log(st, s) EXCEPT
                  !.manual = IF killThrows THEN @ \ {s} ELSE @ \cup {s},
                  !.signalled = IF killThrows THEN @ ELSE @ \cup {s},
                  !.active = @ \ {s}]
    IN IF killThrows
       THEN [updateStatus(st1, s, "offline") EXCEPT !.ok = TRUE]
       ELSE [updateStatus(cleanupStreamData(st1, s), s, "offline")
               EXCEPT !.ok = TRUE]

\* killThrows: ffmpegProcess.kill('SIGTERM') raised, and the manual-stop
\* flag is taken back.  A signalled process stays in procs until its
\* 'exit' listener has run.
stopStream(st, s, killThrows) ==
  IF s \notin st.active
  THEN IF st.db[s] = "live"
       THEN [offlineAndNotify(st, s) EXCEPT !.ok = TRUE]
       ELSE [st EXCEPT !.ok = FALSE]
  ELSE
    LET st1 == [Log(st, s) EXCEPT
                  !.manual = IF killThrows THEN @ \ {s} ELSE @ \cup {s},
                  !.signalled = IF killThrows THEN @ ELSE @ \cup {s},
                  !.active = @ \ {s}]
    IN [stopTail(st1, s) EXCEPT !.ok = TRUE]

\* ---------------------------------------------------- timer callbacks

retryCallbackDeletedSetsOffline(st, t) ==
  LET s == t.sid
      st0 == [st EXCEPT !.timers = BagDel(@, t)]
  IN IF st0.db[s] = "absent"
     THEN updateStatus(st0, s, "offline")
     ELSE LET st2 == startStream(st0, s, t.resume, t.kind, t.stale)
          IN IF st2.ok THEN st2 ELSE updateStatus(st2, s, "offline")

\* The setTimeout callbacks of handleStreamCrash and handleStreamError.
retryCallback(st, t) ==
  LET s == t.sid
      st0 == [st EXCEPT !.timers = BagDel(@, t)]
  IN IF st0.db[s] = "absent"
     THEN IF t.kind = "error" THEN Log(st0, s) ELSE st0
     ELSE LET st1 == IF t.kind = "error" THEN Log(st0, s) ELSE st0
              st2 == startStream(st1, s, t.resume, t.kind, t.stale)
          IN IF st2.ok
             THEN IF t.kind = "error" THEN Log(st2, s) ELSE st2
             ELSE updateStatus(IF t.kind = "error" THEN Log(st2, s) ELSE st2,
                               s, "offline")

\* The setTimeout callback of StreamHealthMonitor.handleStalledStream.
stalledCallback(st, t) ==
  startStream([st EXCEPT !.timers = BagDel(@, t)], t.sid, t.resume, t.kind, t.stale)

\* The setTimeout callback of checkStreamHealth (streamingService).
recoveryCallback(st, t) ==
  Log(startStream([st EXCEPT !.timers = BagDel(@, t)], t.sid, t.resume, t.kind,
                  t.stale),
      t.sid)

\* ------------------------------------------------ StreamHealthMonitor

updateHealthStatusHealthy(st, s) ==
  [st EXCEPT !.health = {h \in @ : h.sid # s}
                        \cup {[sid |-> s, consecutiveFailures |-> 0, isHealthy |-> TRUE]}]

IsStalledIgnoringLogs(st, s) ==
  /\ s \in st.active
  /\ getStreamElapsedTime(st, s) > HEALTH_CHECK_TIMEOUT \div 1000

\* Whether StreamHealthMonitor.checkStreamHealth classifies s as stalled.
IsStalled(st, s) ==
  /\ s \in st.active
  /\ getStreamElapsedTime(st, s) > HEALTH_CHECK_TIMEOUT \div 1000
  /\ st.lastLog[s] # Absent
  /\ st.now - st.lastLog[s] > HEALTH_CHECK_TIMEOUT

\* The expected resume position that goes to the history is the stalled
\* instance's base position plus the whole seconds it has run.
handleStalledStream(st, s) ==
  LET videoPosition == getStreamVideoPosition(st, s)
      elapsedTime == getStreamElapsedTime(st, s)
      resumePosition == IF videoPosition > 0 THEN videoPosition ELSE elapsedTime
      basePosition == IF st.basePos[s] = Absent THEN 0 ELSE st.basePos[s]
  IN Schedule(stopStream(st, s, FALSE), s, "stalled", resumePosition,
              STALLED_RESTART_DELAY, 0, basePosition + elapsedTime)

\* StreamHealthMonitor.checkStreamHealth
monitorCheckStreamHealth(st, s) ==
  IF s \notin st.active
  THEN cleanupStream(st, s)
  ELSE IF IsStalled(st, s)
  THEN handleStalledStream(st, s)
  ELSE updateHealthStatusHealthy(st, s)

\* StreamHealthMonitor.checkAllStreams: checkStreamHealth for every stream
\* that getActiveStreams() returned when the pass began.
RECURSIVE checkAllStreams(_, _)
checkAllStreams(st, todo) ==
  IF todo = {} THEN st
  ELSE LET s == CHOOSE x \in todo : TRUE
       IN checkAllStreams(monitorCheckStreamHealth(st, s), todo \ {s})

\* ----------------------------------------------------- the reconciler

\* Whether checkStreamHealth (streamingService) schedules a recovery.
NeedsRecovery(st, s) ==
  /\ st.db[s] = "live"
  /\ s \notin st.active
  /\ retryCountOf(st, s) < MAX_RETRY_ATTEMPTS

checkStreamHealth(st, s) ==
  IF NeedsRecovery(st, s)
  THEN LET st1 == Log(st, s)
           pos == ResumePosition(st1.basePos[s], st1.startTimes[s], st1.now)
       IN Schedule(calculateResumePosition(st1, s), s, "recover", pos,
                   RECOVERY_DELAY, 0, 0)
  ELSE st

syncLiveOneLeavesExhausted(st, s) ==
  IF st.db[s] = "live" /\ s \notin st.active /\ NeedsRecovery(st, s)
  THEN checkStreamHealth(st, s)
  ELSE st

\* syncStreamStatuses, first loop: a durably live stream with no
\* registered process is recovered or set offline.
syncLiveOne(st, s) ==
  IF st.db[s] = "live" /\ s \notin st.active
  THEN IF NeedsRecovery(st, s)
       THEN checkStreamHealth(st, s)
       ELSE updateStatus(st, s, "offline")
  ELSE st

syncActiveOneKeepsOrphan(st, s) ==
  IF s \in st.active /\ st.db[s] \notin {"live", "absent"}
  THEN updateStatus(st, s, "live")
  ELSE st

syncActiveOneAlwaysWrites(st, s) ==
  IF s \in st.active
  THEN IF st.db[s] # "absent"
       THEN updateStatus(st, s, "live")
       ELSE [st EXCEPT !.active = @ \ {s}, !.signalled = @ \cup {s}]
  ELSE st

\* syncStreamStatuses, second loop: a registered process whose record is
\* not live is set live, or killed and dropped when the record is gone.
syncActiveOne(st, s) ==
  IF s \in st.active /\ st.db[s] # "live"
  THEN IF st.db[s] # "absent"
       THEN updateStatus(st, s, "live")
       ELSE [st EXCEPT !.active = @ \ {s}, !.signalled = @ \cup {s}]
  ELSE st

RECURSIVE syncLive(_, _)
syncLive(st, todo) ==
  IF todo = {} THEN st
  ELSE LET s == CHOOSE x \in todo : TRUE
       IN syncLive(syncLiveOne(st, s), todo \ {s})

RECURSIVE syncActive(_, _)
syncActive(st, todo) ==
  IF todo = {} THEN st
  ELSE LET s == CHOOSE x \in todo : TRUE
       IN syncActive(syncActiveOne(st, s), todo \ {s})

syncStreamStatuses(st) == syncActive(syncLive(st, Streams), Streams)

\* ------------------------------------------------------ the log buffer

addStreamLogEvictNewest(logs, entry) ==
  IF Len(logs) + 1 > MAX_LOG_LINES THEN logs ELSE Append(logs, entry)

\* addStreamLog on the buffer itself: push, then shift once over the cap.
addStreamLog(logs, entry) ==
  LET pushed == Append(logs, entry)
  IN IF Len(pushed) > MAX_LOG_LINES THEN Tail(pushed) ELSE pushed

\* ---------------------------------------------------------------- Init

\* The module has just been loaded: every Map and Set is empty.  The
\* durable record outlives the process, so it may say "live" already.
InitMaps ==
  /\ activeStreams = {}
  /\ procs = [s \in Streams |-> 0]
  /\ stoppedProcs = [s \in Streams |-> 0]
  /\ streamRetryCount = [s \in Streams |-> Absent]
  /\ manuallyStoppingStreams = {}
  /\ scheduledTerminations = {}
  /\ timers = EmptyBag
  /\ healthChecks = {}
  /\ lastLogAt = [s \in Streams |-> Absent]
  /\ streamLogs = [s \in Streams |-> <<>>]
  /\ lastCall = NoCall
  /\ lastSpawn = [s \in Streams |-> NoSpawn]
  /\ lastExit = NoExit
  /\ lastFired = NoFired
  /\ retriesScheduled = [s \in Streams |-> 0]
  /\ exhausted = {}
  /\ lastScheduled = [s \in Streams |-> NoSchedule]
  /\ lastResume = [s \in Streams |-> Absent]
  /\ appended = [s \in Streams |-> 0]
  /\ calcResult = NoCalc
  /\ exitedAt = [s \in Streams |-> Absent]
  /\ deafProcs = [s \in Streams |-> 0]
  /\ lostExits = [s \in Streams |-> 0]

Init ==
  /\ InitMaps
  /\ now = 0
  /\ dbStatus \in [Streams -> {"offline", "live"}]
  /\ mediaOk = [s \in Streams |-> TRUE]
  /\ streamStartTimes = [s \in Streams |-> Absent]
  /\ streamBasePositions = [s \in Streams |-> Absent]
  /\ streamVideoPositions = [s \in Streams |-> Absent]

\* ------------------------------------------------------------- actions

\* The positions, start time, registry entry and processes of s agree.
SameSession(a, b, s) ==
  /\ (s \in a.active) = (s \in b.active)
  /\ a.procs = b.procs
  /\ a.startTimes[s] = b.startTimes[s]
  /\ a.basePos[s] = b.basePos[s]
  /\ a.videoPos[s] = b.videoPos[s]

\* An external caller's startStream(streamId, resumePosition).
\* An external startStream call.  dbDown: Stream.updateStatus rejects;
\* early: the process ends while startStream awaits the status update.
StartStreamWith(s, resumePosition, dbDown, early) ==
  /\ WillSpawn(Cur, s) => CanSpawn(Cur)
  /\ LET st0 == [Cur EXCEPT
                   !.dbDown = dbDown, !.early = early,
                   !.timers = BagMap(@, [t \in DOMAIN @ |->
                                IF t.sid = s THEN [t EXCEPT !.stale = FALSE] ELSE t]),
                   !.retries[s] = 0,
                   !.exhausted = @ \ {s}]
         st1 == startStream(st0, s, resumePosition, "external", FALSE)
     IN Become([st1 EXCEPT
                  !.lastCall = [op |-> "start", sid |-> s,
                                wasActive |-> s \in Cur.active,
                                ok |-> st1.ok,
                                kept |-> SameSession(Cur, st1, s),
                                signalled |-> FALSE, repeat |-> FALSE]])

StartStream(s, resumePosition) == StartStreamWith(s, resumePosition, FALSE, FALSE)

\* An external caller's stopStream(streamId).
Stopped(s, killThrows) ==
  LET st1 == stopStream(Cur, s, killThrows)
      st2 == IF st1.ok
             THEN [st1 EXCEPT
                     !.timers = BagMap(@, [t \in DOMAIN @ |->
                                  IF t.sid = s THEN [t EXCEPT !.stale = TRUE] ELSE t]),
                     !.retries[s] = 0,
                     !.lastResume[s] = Absent]
             ELSE st1
  IN [st2 EXCEPT
        !.lastCall = [op |-> "stop", sid |-> s,
                      wasActive |-> s \in Cur.active,
                      ok |-> st1.ok,
                      kept |-> SameSession(Cur, st1, s),
                      signalled |-> s \in st1.signalled,
                      repeat |-> FALSE]]

StopStream(s, killThrows) == Become(Stopped(s, killThrows))

\* A process ends and its 'exit' listener runs.
CanExit(s, kind) ==
  /\ procs[s] > 0
  /\ ExitSchedules(Cur, s, kind) => FreeTimers(Cur) > 0

Exited(st1, s, kind) ==
  [st1 EXCEPT
     \* an update was tried and rejected; an exception left the listener;
     \* an update was tried while the stream was registered
     !.lastExit.failed = st1.dbDown /\ s \in st1.wrote,
     !.lastExit.raised = st1.thrown,
     !.lastExit.wroteActive = s \in st1.wroteActive,
     !.retries[s] =
       IF kind \notin {"segv", "error"} THEN 0
       ELSE IF st1.lastScheduled[s].kind \in RetryKinds /\ st1.procs[s] = 0
       THEN Min(@ + 1, MAX_RETRY_ATTEMPTS + 1)
       ELSE @]

ProcessExit(s, kind) ==
  /\ CanExit(s, kind)
  /\ Become(Exited(onExit(Cur, s, kind), s, kind))

\* A process emits 'error'.
ProcessError(s, gone) ==
  /\ procs[s] > 0
  /\ Become(onError(Cur, s, gone))

\* A running process writes to stdout or stderr.
ProcessOutput(s) ==
  /\ procs[s] > 0
  /\ Become(Log(Cur, s))

\* What a timer callback did: found, the record existed when it ran;
\* failed, its startStream call returned failure; wrote, it called
\* updateStatus or its startStream call did.
Fired(st, t) ==
  [st EXCEPT !.lastFired = [kind |-> t.kind, sid |-> t.sid, resume |-> t.resume,
                            found |-> dbStatus[t.sid] # "absent",
                            failed |-> ~st.ok,
                            wrote |-> t.sid \in st.wrote]]

RetryTimerFires(t) ==
  /\ t \in DOMAIN timers
  /\ t.kind \in RetryKinds
  /\ WillSpawn(Cur, t.sid) => CanSpawn(Cur)
  /\ Become(Fired(retryCallback(Cur, t), t))

StalledTimerFires(t) ==
  /\ t \in DOMAIN timers
  /\ t.kind = "stalled"
  /\ WillSpawn(Cur, t.sid) => CanSpawn(Cur)
  /\ Become(Fired(stalledCallback(Cur, t), t))

RecoveryTimerFires(t) ==
  /\ t \in DOMAIN timers
  /\ t.kind = "recover"
  /\ WillSpawn(Cur, t.sid) => CanSpawn(Cur)
  /\ Become(Fired(recoveryCallback(Cur, t), t))

\* StreamHealthMonitor.checkStreamHealth(s) on its own: a forceHealthCheck,
\* or the check of a stream that left the registry while a pass that had
\* it in its list was under way.
MonitorCheck(s) ==
  /\ IsStalled(Cur, s) => FreeTimers(Cur) > 0
  /\ LET st1 == monitorCheckStreamHealth(Cur, s)
         st2 == IF IsStalled(Cur, s) THEN [st1 EXCEPT !.retries[s] = 0] ELSE st1
     IN Become([st2 EXCEPT
                  !.lastCall = [NoCall EXCEPT !.op = "checkStreamHealth",
                                              !.sid = s,
                                              !.wasActive = s \in activeStreams]])

\* One pass of the health monitor's interval.
CheckAllStreams ==
  /\ FreeTimers(Cur) >= Cardinality({s \in Streams : IsStalled(Cur, s)})
  /\ LET st1 == checkAllStreams(Cur, activeStreams)
     IN Become([st1 EXCEPT
                  !.retries = [s \in Streams |->
                                 IF IsStalled(Cur, s) THEN 0 ELSE @[s]],
                  !.lastCall = [NoCall EXCEPT !.op = "checkAllStreams"]])

\* One pass of the reconciler (either of its two intervals).
Sync ==
  /\ FreeTimers(Cur) >= Cardinality({s \in Streams : NeedsRecovery(Cur, s)})
  /\ LET st1 == syncStreamStatuses(Cur)
     IN Become([st1 EXCEPT
                  !.lastCall = [NoCall EXCEPT
                     !.op = "sync",
                     \* the pass wrote a status or changed the registry
                     !.ok = st1.wrote # {} \/ st1.active # Cur.active,
                     !.signalled = st1.signalled # {},
                     !.repeat = lastCall.op = "sync"]])

\* The clock passes TickMs.  Every setTimeout delay is shorter, so no
\* timer is still pending by then.
Tick ==
  /\ now < MaxTicks * TickMs
  /\ timers = EmptyBag
  /\ now' = now + TickMs
  /\ UNCHANGED <<dbStatus, mediaOk, activeStreams, procs, deafProcs,
                 lostExits, streamStartTimes,
                 streamBasePositions, streamVideoPositions, streamRetryCount,
                 manuallyStoppingStreams, scheduledTerminations, timers,
                 healthChecks, lastLogAt,
                 streamLogs, lastResume, retriesScheduled, exhausted, appended,
                 calcResult, aside>>
  /\ lastScheduled' = [s \in Streams |-> NoSchedule]
  /\ lastCall' = NoCall
  /\ lastSpawn' = [s \in Streams |-> NoSpawn]
  /\ lastExit' = NoExit
  /\ lastFired' = NoFired

\* The stream's record is deleted from the durable store.
DeleteRecord(s) ==
  /\ dbStatus[s] # "absent"
  /\ Become([Cur EXCEPT !.db[s] = "absent"])

\* The stream's video file (or video record) disappears or comes back.
MediaChange(s) == Become([Cur EXCEPT !.media[s] = ~@])

Next ==
  \/ \E s \in Streams, r \in ResumeInputs : StartStream(s, r)
  \/ \E s \in Streams, k \in BOOLEAN : StopStream(s, k)
  \/ \E s \in Streams, kind \in ExitKinds : ProcessExit(s, kind)
  \/ \E s \in Streams, gone \in BOOLEAN : ProcessError(s, gone)
  \/ \E s \in Streams : ProcessOutput(s)
  \/ \E t \in DOMAIN timers : RetryTimerFires(t)
  \/ \E t \in DOMAIN timers : StalledTimerFires(t)
  \/ \E t \in DOMAIN timers : RecoveryTimerFires(t)
  \/ \E s \in Streams : MonitorCheck(s)
  \/ CheckAllStreams
  \/ Sync
  \/ Tick
  \/ \E s \in Streams : DeleteRecord(s)
  \/ \E s \in Streams : MediaChange(s)

Spec == Init /\ [][Next]_vars

\* Timers fire when due and both reconciler intervals keep running.
TimerFires ==
  \E t \in DOMAIN timers :
    RetryTimerFires(t) \/ StalledTimerFires(t) \/ RecoveryTimerFires(t)

FairSpec == Spec /\ WF_vars(TimerFires) /\ WF_vars(Sync)

\* --------------------------------------------- the log buffer on its own

\* addStreamLog(s, message): the entries are numbered in append order.
AppendLog(s) ==
  /\ appended[s] < MaxAppends
  /\ streamLogs' = [streamLogs EXCEPT ![s] = addStreamLog(@, appended[s] + 1)]
  /\ appended' = [appended EXCEPT ![s] = @ + 1]
  /\ BecomeProgram(Log(Cur, s))
  /\ UNCHANGED <<calcResult, aside>>

NextLog == \E s \in Streams : AppendLog(s)

SpecLog == Init /\ [][NextLog]_vars

\* ----------------------------------- calculateResumePosition on its own

\* Stored base positions (seconds), stored start times and clock readings
\* (ms); the clock may have been set back since the start was recorded.
BaseInputs == {Absent, 0, 7, 3600}
StartInputs == {Absent, 0, 500, 60000}
NowInputs == {0, 499, 500, 1499, 1500, 61999, 1800000, 1800999}

InitCalc ==
  /\ InitMaps
  /\ now \in NowInputs
  /\ dbStatus = [s \in Streams |-> "live"]
  /\ mediaOk = [s \in Streams |-> TRUE]
  /\ streamStartTimes \in [Streams -> StartInputs]
  /\ streamBasePositions \in [Streams -> BaseInputs]
  /\ streamVideoPositions = streamBasePositions

CalculateResumePosition(s) ==
  /\ calcResult' = [called |-> TRUE, base |-> streamBasePositions[s],
                    start |-> streamStartTimes[s], at |-> now,
                    pos |-> ResumePosition(streamBasePositions[s],
                                           streamStartTimes[s], now)]
  /\ BecomeProgram(calculateResumePosition(Cur, s))
  /\ UNCHANGED <<streamLogs, appended, aside>>

NextCalc == \E s \in Streams : CalculateResumePosition(s)

SpecCalc == InitCalc /\ [][NextCalc]_vars

\* ------------------------------------- the health monitor on its own

\* A running session as startStream leaves it (current position = base
\* position), at clock readings around the stall timeout, with its newest
\* log entry written at or after its start.
StallBases == {0, 7, 3600}
StallLogs == {0, 999, 1000, 31000}
StallNows == {30000, 30999, 31000, 31001, 45000, 61000}

InitStall ==
  /\ now \in StallNows
  /\ dbStatus = [s \in Streams |-> "live"]
  /\ mediaOk = [s \in Streams |-> TRUE]
  /\ activeStreams = Streams
  /\ procs = [s \in Streams |-> 1]
  /\ stoppedProcs = [s \in Streams |-> 0]
  /\ streamStartTimes = [s \in Streams |-> 0]
  /\ streamBasePositions \in [Streams -> StallBases]
  /\ streamVideoPositions = streamBasePositions
  /\ streamRetryCount = [s \in Streams |-> Absent]
  /\ manuallyStoppingStreams = {}
  /\ scheduledTerminations = Streams
  /\ timers = EmptyBag
  /\ healthChecks = {}
  /\ lastLogAt \in [Streams -> {t \in StallLogs : t <= now}]
  /\ streamLogs = [s \in Streams |-> <<>>]
  /\ lastCall = NoCall
  /\ lastSpawn = [s \in Streams |-> NoSpawn]
  /\ lastExit = NoExit
  /\ lastFired = NoFired
  /\ retriesScheduled = [s \in Streams |-> 0]
  /\ exhausted = {}
  /\ lastScheduled = [s \in Streams |-> NoSchedule]
  /\ lastResume = streamBasePositions
  /\ appended = [s \in Streams |-> 0]
  /\ calcResult = NoCalc
  /\ exitedAt = [s \in Streams |-> Absent]
  /\ deafProcs = [s \in Streams |-> 0]
  /\ lostExits = [s \in Streams |-> 0]

NextStall ==
  \/ CheckAllStreams
  \/ \E t \in DOMAIN timers : StalledTimerFires(t)

SpecStall == InitStall /\ [][NextStall]_vars

\* ------------------- the reconciler between an exit and the restart
\* A running session whose process ends; the reconciler's interval may
\* come round while the retry timer is pending.

RecoverBases == {0, 7}
RecoverNows == {10000, 10400, 40000}
\* Shorter than every setTimeout delay (the shortest is BackoffDelay(0)).
ElapseMs == 1000

InitRecover ==
  /\ now \in RecoverNows
  /\ dbStatus = [s \in Streams |-> "live"]
  /\ mediaOk = [s \in Streams |-> TRUE]
  /\ activeStreams = Streams
  /\ procs = [s \in Streams |-> 1]
  /\ stoppedProcs = [s \in Streams |-> 0]
  /\ streamStartTimes = [s \in Streams |-> 0]
  /\ streamBasePositions \in [Streams -> RecoverBases]
  /\ streamVideoPositions = streamBasePositions
  /\ streamRetryCount = [s \in Streams |-> Absent]
  /\ manuallyStoppingStreams = {}
  /\ scheduledTerminations = Streams
  /\ timers = EmptyBag
  /\ healthChecks = {}
  /\ lastLogAt = [s \in Streams |-> now]
  /\ streamLogs = [s \in Streams |-> <<>>]
  /\ lastCall = NoCall
  /\ lastSpawn = [s \in Streams |-> NoSpawn]
  /\ lastExit = NoExit
  /\ lastFired = NoFired
  /\ retriesScheduled = [s \in Streams |-> 0]
  /\ exhausted = {}
  /\ lastScheduled = [s \in Streams |-> NoSchedule]
  /\ lastResume = streamBasePositions
  /\ appended = [s \in Streams |-> 0]
  /\ calcResult = NoCalc
  /\ exitedAt = [s \in Streams |-> Absent]
  /\ deafProcs = [s \in Streams |-> 0]
  /\ lostExits = [s \in Streams |-> 0]

\* The 'exit' event, with the time of the exit kept.
HandledExit(s, kind) ==
  /\ CanExit(s, kind)
  /\ BecomeProgram(Exited(onExit(Cur, s, kind), s, kind))
  /\ exitedAt' = [exitedAt EXCEPT ![s] = now]
  /\ UNCHANGED <<streamLogs, appended, calcResult, stoppedProcs>>

\* The clock passes ElapseMs, once: a pending timer is not yet due.
Elapse ==
  /\ now \in RecoverNows
  /\ BecomeProgram([Cur EXCEPT !.now = @ + ElapseMs])
  /\ UNCHANGED <<streamLogs, appended, calcResult, aside>>

NextRecover ==
  \/ \E s \in Streams, kind \in ExitKinds : HandledExit(s, kind)
  \/ Elapse
  \/ Sync
  \/ \E t \in DOMAIN timers : RetryTimerFires(t)
  \/ \E t \in DOMAIN timers : RecoveryTimerFires(t)

SpecRecover == InitRecover /\ [][NextRecover]_vars

\* ------- instances, rejected status updates and unheard processes
\* Stream.updateStatus is awaited and may reject; between spawn() and the
\* attachment of the listeners startStream awaits it.  The instances
\* that stopStream has signalled are told from the others.

StartFates == {"updateFails", "exitsEarly"}

StartStreamRace(s, resumePosition, fate) ==
  /\ WillSpawn(Cur, s)
  /\ StartStreamWith(s, resumePosition, fate = "updateFails", fate = "exitsEarly")

\* stopStream, with the signalled process counted in stoppedProcs.  A
\* registered process that has no listener, or has ended already, is not
\* among procs and is not counted.
StopStreamOf(s, killThrows) ==
  /\ BecomeProgram(Stopped(s, killThrows))
  /\ stoppedProcs' =
       [stoppedProcs EXCEPT
          ![s] = IF s \in activeStreams /\ ~killThrows /\ procs[s] > @
                 THEN @ + 1 ELSE @]
  /\ UNCHANGED <<streamLogs, appended, calcResult, exitedAt>>

\* The 'exit' event of one instance.  stopped: the instance is one that
\* stopStream has signalled; dbDown: Stream.updateStatus rejects.
ProcessExitOf(s, kind, stopped, dbDown) ==
  /\ CanExit(s, kind)
  /\ IF stopped THEN stoppedProcs[s] > 0 ELSE procs[s] > stoppedProcs[s]
  /\ LET st1 == Exited(onExit([Cur EXCEPT !.dbDown = dbDown], s, kind), s, kind)
     IN BecomeProgram([st1 EXCEPT !.lastExit.stopped = stopped])
  /\ stoppedProcs' = [stoppedProcs EXCEPT ![s] = IF stopped THEN @ - 1 ELSE @]
  /\ UNCHANGED <<streamLogs, appended, calcResult, exitedAt>>

\* A process that has no 'exit' listener ends.
DeafExit(s) ==
  /\ deafProcs[s] > 0
  /\ Become([Cur EXCEPT !.deaf[s] = @ - 1, !.lost[s] = Min(@ + 1, MaxProcs)])

NextDb ==
  \/ \E s \in Streams, r \in ResumeInputs : StartStream(s, r)
  \/ \E s \in Streams, r \in ResumeInputs, fate \in StartFates : StartStreamRace(s, r, fate)
  \/ \E s \in Streams, k \in BOOLEAN : StopStreamOf(s, k)
  \/ \E s \in Streams, kind \in ExitKinds, stopped \in BOOLEAN, dbDown \in BOOLEAN :
       ProcessExitOf(s, kind, stopped, dbDown)
  \/ \E s \in Streams : DeafExit(s)
  \/ \E t \in DOMAIN timers : RetryTimerFires(t)
  \/ Tick

SpecDb == Init /\ [][NextDb]_vars

\* -------------------------------------------------------------- claims

\* C1: at every instant at most one spawned process whose exit has not
\* been handled exists for a stream id.
C1_AtMostOneProcess == \A s \in Streams : procs[s] <= 1

\* C2: an external startStream for a stream that is in the registry
\* returns failure, spawns nothing and leaves the registry entry, the start
\* time and the positions of the running session as they were.
C2_AlreadyActive ==
  (lastCall.op = "start" /\ lastCall.wasActive) =>
    (~lastCall.ok /\ lastCall.kept)

\* C3: after a fresh start, while every instance ends in a failure and no
\* external start or stop comes, the retry controller schedules at most
\* MAX_RETRY_ATTEMPTS restarts.
C3_RetryBound == \A s \in Streams : retriesScheduled[s] <= MAX_RETRY_ATTEMPTS

\* C4: a retry timer that was pending when an external stopStream returned
\* success spawns no process, unless an external start came in between.
C4_ManualStopPrecedence ==
  \A s \in Streams : ~(lastSpawn[s].by \in RetryKinds /\ lastSpawn[s].stale)

\* C5: within a session, when the exit of the stream's only, registered
\* process schedules a retry, the retry's resume position is the resume
\* position that process was started with plus the whole seconds it ran.
C5_CumulativeResume ==
  \A s \in Streams :
    (lastScheduled[s].kind \in RetryKinds /\ lastScheduled[s].expected # Absent)
      => lastScheduled[s].resume = lastScheduled[s].expected

\* C6: calculateResumePosition returns the stored base position (0 if none)
\* plus max(0, floor((now - startTime) / 1000)) when a start time is
\* recorded, and the base position alone when none is; a session resumed at
\* 3600 that ran 1800 s yields 5400.
C6_ResumePosition ==
  calcResult.called =>
    LET b == IF calcResult.base = Absent THEN 0 ELSE calcResult.base
        d == calcResult.at - calcResult.start
        e == calcResult.pos - b
    IN /\ calcResult.start = Absent => e = 0
       /\ calcResult.start # Absent =>
            /\ e >= 0
            /\ d < 0 => e = 0
            /\ d >= 0 => (e * 1000 <= d /\ d < (e + 1) * 1000)
       /\ (calcResult.base = 3600 /\ calcResult.start # Absent /\ d = 1800 * 1000)
            => calcResult.pos = 5400

C6_Witness ==
  /\ calcResult.called
  /\ calcResult.base = 3600
  /\ calcResult.start = 0
  /\ calcResult.at = 1800000
  /\ calcResult.pos = 5400

\* C7: a retry after an error exit is scheduled with the delay
\* min(3000 * 2^(n-1), 30000) ms, n being the retry count after the
\* increment: 3000, 6000, 12000.
C7_BackoffDelay ==
  \A s \in Streams :
    lastScheduled[s].kind = "error" =>
      lastScheduled[s].delay =
        Min(BACKOFF_BASE_DELAY * 2^(lastScheduled[s].attempt - 1), BACKOFF_MAX_DELAY)

\* C8: once a failure exit found the retries used up, no automatic path
\* (retry timer, health monitor, reconciler) spawns a process for the
\* stream until an external fresh start.
C8_ExhaustionTerminal ==
  \A s \in Streams : s \in exhausted => lastSpawn[s].by \in {"none", "external"}

\* C9: a stream that is durably live with no process in the registry (and
\* none running) eventually has a process registered or stops being live,
\* also when its media is missing, and stays so, so that every restart
\* fails to start.
C9_NoSilentLive ==
  \A s \in Streams :
    (dbStatus[s] = "live" /\ s \notin activeStreams /\ procs[s] = 0 /\ ~mediaOk[s])
      ~> (s \in activeStreams \/ dbStatus[s] # "live" \/ mediaOk[s])

\* C10: a log buffer never holds more than MAX_LOG_LINES entries, and holds
\* the most recently appended ones in append order.
C10_LogBufferBound ==
  \A s \in Streams :
    LET n == appended[s]
        kept == Min(n, MAX_LOG_LINES)
    IN /\ Len(streamLogs[s]) = kept
       /\ kept <= MAX_LOG_LINES
       /\ \A i \in 1..kept : streamLogs[s][i] = n - kept + i

C10_Witness ==
  \E s \in Streams :
    /\ appended[s] > MAX_LOG_LINES
    /\ Len(streamLogs[s]) = MAX_LOG_LINES
    /\ streamLogs[s][1] = appended[s] - MAX_LOG_LINES + 1

\* C11: a reconciler pass that directly follows another pass calls
\* Stream.updateStatus for no stream and leaves the registry as it is.
C11_SyncIdempotent ==
  (lastCall.op = "sync" /\ lastCall.repeat) => ~lastCall.ok

C11_Witness ==
  /\ lastCall.op = "sync"
  /\ lastCall.repeat
  /\ \E s \in Streams : dbStatus[s] = "live" /\ s \notin activeStreams

\* What stopStream's caller can see of the supervisor's own bookkeeping:
\* the registry, the tracking maps, the manual-stop flags and the status.
stopVisible ==
  <<activeStreams, streamStartTimes, streamBasePositions, streamVideoPositions,
    streamRetryCount, lastLogAt, manuallyStoppingStreams, dbStatus>>

C13_StopRepairsDrift ==
  [][(/\ lastCall'.op = "stop"
      /\ lastCall'.sid \notin activeStreams
      /\ dbStatus[lastCall'.sid] = "live")
     => (/\ lastCall'.ok
         /\ dbStatus'[lastCall'.sid] = "offline"
         /\ ~lastCall'.signalled
         /\ procs' = procs
         /\ manuallyStoppingStreams' = manuallyStoppingStreams)]_vars

\* A repairing stop, made while an unregistered process was running.
C13_Witness ==
  \E s \in Streams :
    /\ lastCall.op = "stop" /\ lastCall.sid = s
    /\ ~lastCall.wasActive /\ lastCall.ok
    /\ dbStatus[s] = "offline"
    /\ procs[s] > 0

\* C14: after a successful stopStream call for a registered stream the
\* stream is not registered, its start time, base position, current
\* position, retry count and log buffer are gone and its record, if there
\* is one, is offline; whether or not the signal could be sent.
C14_StopClearsSession ==
  \A s \in Streams :
    (lastCall.op = "stop" /\ lastCall.sid = s /\ lastCall.wasActive /\ lastCall.ok)
    => /\ s \notin activeStreams
       /\ streamStartTimes[s] = Absent
       /\ streamBasePositions[s] = Absent
       /\ streamVideoPositions[s] = Absent
       /\ streamRetryCount[s] = Absent
       /\ lastLogAt[s] = Absent
       /\ dbStatus[s] \in {"offline", "absent"}

\* A successful stop of a registered stream whose signal could not be sent.
C14_Witness ==
  \E s \in Streams :
    /\ lastCall.op = "stop" /\ lastCall.sid = s
    /\ lastCall.wasActive /\ lastCall.ok /\ ~lastCall.signalled
    /\ dbStatus[s] = "offline"

\* A successful stop of a registered stream that had retried.
C14_WitnessSignalled ==
  \E s \in Streams :
    /\ lastCall.op = "stop" /\ lastCall.sid = s
    /\ lastCall.wasActive /\ lastCall.ok /\ lastCall.signalled
    /\ dbStatus[s] = "offline"

\* C15: startStream returns a result, and when the stream's record is
\* absent or its media is missing the result is failure, no process is
\* spawned, and the registry and the status are as before, whoever calls
\* it and with whatever resume position.
C15_StartFailure ==
  \A s \in Streams, r \in {0, 1, 3600} :
    LET st1 == startStream(Cur, s, r, "external", FALSE)
    IN /\ st1.ok \in BOOLEAN
       /\ ~WillSpawn(Cur, s) =>
            /\ ~st1.ok
            /\ st1.procs = procs
            /\ st1.active = activeStreams
            /\ st1.db = dbStatus
            /\ st1.wrote = {}

\* A failed external start of a stream whose earlier process is still
\* registered and whose record is still live.
C15_Witness ==
  \E s \in Streams :
    /\ lastCall.op = "start" /\ lastCall.sid = s /\ ~lastCall.ok
    /\ ~mediaOk[s]
    /\ s \in activeStreams
    /\ dbStatus[s] = "live"

\* C16: an external startStream call without a resume position leaves no
\* stored retry count (read as 0), and when the next thing that happens is
\* a failure exit of the one process it spawned, that exit makes the retry
\* count 1.
C16_FreshStartFirstRetry ==
  /\ [](lastCall.op = "start" => streamRetryCount[lastCall.sid] = Absent)
  /\ [][(/\ lastCall.op = "start" /\ lastCall.ok
          /\ procs[lastCall.sid] = 1
          /\ lastExit'.kind \in {"error", "segv"}
          /\ lastExit'.sid = lastCall.sid)
         => streamRetryCount'[lastCall.sid] = 1]_vars

\* C17: a stream id is in the registry exactly when a spawned process of
\* the stream exists whose exit has not been handled.
C17_RegistryTruthful ==
  \A s \in Streams : s \in activeStreams <=> procs[s] > 0

\* C18: the stored retry count of every stream is between 0 and 3; a
\* stream without a stored count reads as 0.
C18_RetryCountRange ==
  \A s \in Streams : retryCountOf(Cur, s) \in 0..MAX_RETRY_ATTEMPTS

\* The stored count is at its maximum.
C18_Witness ==
  \E s \in Streams : streamRetryCount[s] = MAX_RETRY_ATTEMPTS

\* C19: an exit handled without the manual-stop flag takes the normal-exit
\* branch (offline, no retry) only when the code is 0 or null and there is
\* no signal; an exit by SIGSEGV goes to handleStreamCrash and an exit with
\* a non-zero code to handleStreamError.
C19_ExitClassification ==
  [][(lastExit'.kind # "none" /\ ~lastExit'.manual)
     => /\ lastExit'.path = "normal" => lastExit'.kind = "clean"
        /\ lastExit'.kind = "clean" =>
             /\ lastExit'.path = "normal"
             /\ lastScheduled'[lastExit'.sid] = NoSchedule
             /\ streamRetryCount' = streamRetryCount
             /\ lastExit'.wasActive => dbStatus'[lastExit'.sid] # "live"
        /\ lastExit'.kind = "segv" => lastExit'.path = "crash"
        /\ lastExit'.kind = "error" => lastExit'.path = "error"]_vars

\* C20: an exit handled while the stream's manual-stop flag is set clears
\* the flag, schedules no timer, leaves the retry count as it is, and the
\* stream's record, if there is one, is offline afterwards.
C20_ManualExit ==
  [][(lastExit'.kind # "none" /\ lastExit'.manual)
     => LET s == lastExit'.sid
        IN /\ s \in manuallyStoppingStreams
           /\ s \notin manuallyStoppingStreams'
           /\ timers' = timers
           /\ lastScheduled'[s] = NoSchedule
           /\ streamRetryCount' = streamRetryCount
           /\ dbStatus'[s] \in {"offline", "absent"}]_vars

\* The exit of a crashed process was handled while the flag was set and
\* another process of the stream was registered.
C20_Witness ==
  /\ lastExit.kind = "segv"
  /\ lastExit.manual
  /\ lastExit.wasActive
  /\ dbStatus[lastExit.sid] = "offline"

\* C21: a retry timer that fires when the stream's record is gone spawns
\* no process, calls updateStatus for no stream and schedules no timer.
C21_RetryAbortsOnDeletedRecord ==
  [][(lastFired'.kind \in RetryKinds /\ ~lastFired'.found)
     => /\ procs' = procs
        /\ activeStreams' = activeStreams
        /\ ~lastFired'.wrote
        /\ dbStatus' = dbStatus
        /\ lastScheduled' = [s \in Streams |-> NoSchedule]
        /\ BagCardinality(timers') = BagCardinality(timers) - 1]_vars

\* A retry timer of a deleted stream has fired.
C21_Witness ==
  /\ lastFired.kind \in RetryKinds
  /\ ~lastFired.found
  /\ dbStatus[lastFired.sid] = "absent"

\* C22: when the startStream call of a retry timer returns failure, the
\* record is offline afterwards, no timer is scheduled and the stream is
\* not registered.
C22_FailedRestart ==
  [][(lastFired'.kind \in RetryKinds /\ lastFired'.failed)
     => /\ dbStatus'[lastFired'.sid] = "offline"
        /\ lastScheduled' = [s \in Streams |-> NoSchedule]
        /\ BagCardinality(timers') = BagCardinality(timers) - 1
        /\ lastFired'.sid \notin activeStreams']_vars

\* C23: whenever a stop or the handling of an exit takes a stream's
\* record from live to offline, no stop remains scheduled for the stream.
C23_OfflineCancelsScheduledStop ==
  [][\A s \in Streams :
       (/\ lastCall'.op = "stop" \/ lastExit'.kind # "none"
        /\ dbStatus[s] = "live"
        /\ dbStatus'[s] = "offline")
       => s \notin scheduledTerminations']_vars

\* C24: when the handling of a failure exit finds the retries used up, the
\* stream has no start time, base position, current position, retry count
\* or log buffer afterwards.
C24_ExhaustionDestroysTracking ==
  [][\A s \in Streams :
       (/\ lastExit'.path \in {"crash", "error"}
        /\ lastExit'.sid = s
        /\ streamRetryCount[s] = MAX_RETRY_ATTEMPTS)
       => /\ streamStartTimes'[s] = Absent
          /\ streamBasePositions'[s] = Absent
          /\ streamVideoPositions'[s] = Absent
          /\ streamRetryCount'[s] = Absent
          /\ lastLogAt'[s] = Absent]_vars

HasHealthRecord(s) == \E h \in healthChecks : h.sid = s

\* C25: a stream that is not in the registry when a pass of the health
\* monitor begins has no HealthRecord when the pass ends.
C25_HealthRecordCleanup ==
  [][\A s \in Streams :
       (lastCall'.op = "checkAllStreams" /\ s \notin activeStreams)
       => ~HasHealthRecord(s)']_vars

HealthyRecord(s) == [sid |-> s, consecutiveFailures |-> 0, isHealthy |-> TRUE]

\* C26: a health check of a registered stream starts stall recovery (stop
\* now, start in 2 s) exactly when the session has run for more than 30
\* whole seconds and its newest log entry is more than 30 s old; in every
\* other case nothing is stopped or scheduled and the stream's HealthRecord
\* becomes consecutiveFailures = 0, isHealthy = true.
C26_StallClassification ==
  [][\A s \in Streams :
       (lastCall'.op = "checkAllStreams" /\ s \in activeStreams)
       => IF /\ (now - streamStartTimes[s]) \div 1000 > 30
             /\ lastLogAt[s] # Absent
             /\ now - lastLogAt[s] > 30000
          THEN /\ lastScheduled'[s].kind = "stalled"
               /\ lastScheduled'[s].delay = STALLED_RESTART_DELAY
               /\ s \notin activeStreams'
          ELSE /\ lastScheduled'[s] = NoSchedule
               /\ timers' = timers
               /\ s \in activeStreams'
               /\ procs' = procs
               /\ HealthyRecord(s) \in healthChecks'
               /\ \A h \in healthChecks' : h.sid = s => h = HealthyRecord(s)]_vars

\* A session checked 31001 ms after its start, silent for 30001 ms or
\* more, was classified as stalled.
C26_Witness ==
  \E s \in Streams :
    /\ lastCall.op = "checkAllStreams"
    /\ lastScheduled[s].kind = "stalled"
    /\ now - 30001 \in StallLogs

\* A session silent for exactly 30000 ms was marked healthy.
C26_WitnessHealthy ==
  \E s \in Streams :
    /\ lastCall.op = "checkAllStreams"
    /\ HealthyRecord(s) \in healthChecks
    /\ now - lastLogAt[s] = 30000

\* C27: the resume position the health monitor schedules for a stalled
\* session, and passes to startStream, is the session's base position plus
\* the whole seconds the stalled instance has run.
C27_StalledResumePosition ==
  \A s \in Streams :
    lastScheduled[s].kind = "stalled"
      => lastScheduled[s].resume = lastScheduled[s].expected

\* C28: for every stream whose record is live and that is not registered
\* when a reconciler pass begins, the pass either schedules a recovery
\* start, and only when its retry count is below 3, or sets the record
\* offline.
C28_SyncLiveWithoutProcess ==
  [][\A s \in Streams :
       (lastCall'.op = "sync" /\ dbStatus[s] = "live" /\ s \notin activeStreams)
       => /\ lastScheduled'[s].kind = "recover" \/ dbStatus'[s] = "offline"
          /\ lastScheduled'[s].kind = "recover" =>
               /\ retryCountOf(Cur, s) < MAX_RETRY_ATTEMPTS
               /\ lastScheduled'[s].delay = RECOVERY_DELAY
               /\ dbStatus'[s] = "live"
               /\ \E t \in DOMAIN timers' : t.sid = s /\ t.kind = "recover"]_vars

\* A pass found a live, unregistered stream whose retries were used up and
\* set it offline.
C28_Witness ==
  \E s \in Streams :
    /\ lastCall.op = "sync" /\ lastCall.ok
    /\ dbStatus[s] = "offline"
    /\ streamRetryCount[s] = MAX_RETRY_ATTEMPTS
    /\ s \notin activeStreams

\* A pass scheduled the recovery of a live, unregistered stream.
C28_WitnessRecovery ==
  \E s \in Streams :
    /\ lastCall.op = "sync"
    /\ lastScheduled[s].kind = "recover"

\* C29: a reconciler pass sets the record of a registered stream live when
\* it exists and is not live, leaving the process alone; when the record
\* is missing it signals the process and drops the stream from the
\* registry; and no process is spawned for a stream whose record is
\* missing.
C29_SyncProcessWithoutLive ==
  [][\A s \in Streams :
       /\ (lastCall'.op = "sync" /\ s \in activeStreams /\ dbStatus[s] = "offline")
          => /\ dbStatus'[s] = "live"
             /\ s \in activeStreams'
             /\ procs' = procs
             /\ ~lastCall'.signalled
       /\ (lastCall'.op = "sync" /\ s \in activeStreams /\ dbStatus[s] = "absent")
          => /\ lastCall'.signalled
             /\ s \notin activeStreams'
             /\ dbStatus'[s] = "absent"
       /\ dbStatus[s] = "absent" => procs'[s] <= procs[s]]_vars

\* A pass removed a registered stream whose record was gone.
C29_Witness ==
  \E s \in Streams :
    /\ lastCall.op = "sync" /\ lastCall.signalled
    /\ dbStatus[s] = "absent"
    /\ s \notin activeStreams
    /\ procs[s] > 0

\* C30: a stream's current position is never below its base position.
C30_CurrentAtLeastBase ==
  \A s \in Streams :
    streamVideoPositions[s] # Absent
      => streamVideoPositions[s] >=
           (IF streamBasePositions[s] = Absent THEN 0 ELSE streamBasePositions[s])

\* The failure exit of a resumed session has recomputed its current
\* position.
C30_Witness ==
  \E s \in Streams :
    /\ streamBasePositions[s] > 0
    /\ lastScheduled[s].kind \in RetryKinds
    /\ streamVideoPositions[s] = lastScheduled[s].resume

\* The current position of a session started at 0 has moved ahead.
C30_WitnessAhead ==
  \E s \in Streams :
    /\ streamBasePositions[s] = 0
    /\ streamVideoPositions[s] > 0

\* C32: the startStream call made by a retry timer leaves the retry count
\* as it was, also when the timer's resume position is 0.
C32_RetryKeepsRetryCount ==
  [][(lastFired'.kind \in RetryKinds /\ lastFired'.found)
     => streamRetryCount' = streamRetryCount]_vars

\* C35: at most one restart timer is pending for a stream, counting the
\* retry timers, the health monitor's recovery timers and the reconciler's.
C35_OneRestartTimer ==
  \A s \in Streams :
    BagCount(timers, DOMAIN timers, [t \in DOMAIN timers |-> t.sid = s]) <= 1

\* C38: a recovery timer of the health monitor or of the reconciler that was
\* pending when an external stopStream returned success spawns no process,
\* unless an external start came in between.
C38_StopCancelsRecovery ==
  \A s \in Streams : ~(lastSpawn[s].by \in {"stalled", "recover"} /\ lastSpawn[s].stale)

\* C39: after a successful external startStream without a resume position
\* the base position and the current position of the stream are both 0.
C39_FreshStartAtZero ==
  \A s \in Streams :
    (lastCall.op = "start" /\ lastCall.sid = s /\ lastCall.ok)
      => (streamBasePositions[s] = 0 /\ streamVideoPositions[s] = 0)

\* C33: when the exit of an instance that stopStream has signalled is
\* handled while a newer instance is registered and the status is live, the
\* newer instance stays in the registry and the status stays live.
C33_SupersededExit ==
  [][\A s \in Streams :
       (lastExit'.kind # "none" /\ lastExit'.sid = s /\ lastExit'.stopped
          /\ s \in activeStreams /\ dbStatus[s] = "live")
       => (s \in activeStreams' /\ dbStatus'[s] = "live")]_vars

\* C34: the failure exit of an instance that stopStream has not signalled is
\* never taken for a manual stop, and the exit of an instance that
\* stopStream has signalled schedules no retry.
C34_FlagConsumedByStoppedInstance ==
  /\ (lastExit.kind \in {"segv", "error"} /\ ~lastExit.stopped)
        => lastExit.path # "manual"
  /\ (lastExit.kind # "none" /\ lastExit.stopped)
        => lastScheduled[lastExit.sid].kind \notin RetryKinds

\* C40: when the reconciler schedules a recovery for a stream none of whose
\* processes is running, the resume position is at most the base position
\* plus the whole seconds between the start of the last instance and its exit.
C40_RecoveryResumeBound ==
  \A s \in Streams :
    (lastScheduled[s].kind = "recover" /\ procs[s] = 0
       /\ streamStartTimes[s] # Absent /\ exitedAt[s] # Absent
       /\ exitedAt[s] >= streamStartTimes[s])
    => lastScheduled[s].resume
         <= streamBasePositions[s] + (exitedAt[s] - streamStartTimes[s]) \div 1000

\* C31: after the exit listener has run the stream is not registered, no
\* status update was tried while it still was, and no exception has left
\* the listener, also when the status update rejects.
C31_ExitUnregistersFirst ==
  lastExit.kind # "none"
    => (lastExit.sid \notin activeStreams /\ ~lastExit.wroteActive /\ ~lastExit.raised)

\* A rejected update in the manual-stop branch ...
C31_Witness ==
  lastExit.failed /\ lastExit.path = "manual" /\ lastExit.wasActive

\* ... in the clean-exit branch ...
C31_WitnessNormal ==
  lastExit.failed /\ lastExit.path = "normal" /\ lastExit.wasActive

\* ... and at retry exhaustion.
C31_WitnessExhausted ==
  lastExit.failed /\ lastExit.path \in {"crash", "error"}

\* C36: when an external startStream returns failure, no process that the
\* call spawned is registered or running.
C36_FailedStartLeavesNoProcess ==
  \A s \in Streams :
    (lastCall.op = "start" /\ lastCall.sid = s /\ ~lastCall.ok
       /\ lastSpawn[s].by # "none")
    => (s \notin activeStreams /\ deafProcs[s] = 0)

\* C37: no process ends without an 'exit' listener that handles its end
\* (an end that no listener saw is never handled afterwards).
C37_NoLostExit == \A s \in Streams : lostExits[s] = 0

====
